---- MODULE Spec2Model ----
(***************************************************************************)
(* wasmtk: the WASI host runtime (utils.ts, runner.ts and the runner       *)
(* module variant), as a state machine.                                    *)
(*                                                                         *)
(* Strings the code inspects (argument strings, export names, error        *)
(* messages) are sequences of one-character strings, so that Number(),     *)
(* String.includes() and template literals are computed, not assumed.      *)
(***************************************************************************)
EXTENDS Integers, Sequences, FiniteSets, TLC

VARIABLES
    inv,              \* the invocations in flight: inputs, position, outcome
    wasiInstance,     \* utils.ts: let wasiInstance (0 = undefined)
    wasmInstance,     \* runner.ts: let wasmInstance (0 = undefined)
    runnerInstance,   \* runner module variant: let wasiInstance (0 = undefined)
    calls,            \* guest exports the host invoked, in order
    sys,              \* memory-touching syscalls: who issued it, which instance it resolved
    stdout,           \* what the host process wrote to standard output, in order
    stderr,           \* what the host process wrote to standard error, in order
    exited,           \* Deno.exit status of the host process, -1 while it runs
    ld,               \* the getWasmBytes calls in flight: path, position, outcome
    tempWasm,         \* the file <path>.tmp.wasm: "none" when it does not exist
    scn,              \* the syscall scenario: import table, host state, guest's fd_write arguments
    mem,              \* the bytes of the current instance's linear memory
    gen,              \* which ArrayBuffer memory.buffer is now: memory.grow replaces it
    last,             \* the last syscall: its name, result, output and the memory before it
    nsys,             \* syscalls made so far
    stdin             \* the host's standard input: bytes consumed so far, sizes of the chunks to come

driverVars == <<inv, wasiInstance, wasmInstance, runnerInstance, calls, sys, stdout, stderr, exited>>

loaderVars == <<ld, tempWasm>>

sysVars == <<scn, mem, gen, last, nsys, stdin>>

vars == <<driverVars, loaderVars, sysVars>>

----------------------------------------------------------------------------
(* Bounds *)

MaxArgLen == 2
MaxParams == 2
MaxBytes == 2
MaxIov == 2
MaxGrow == 1
MaxSyscalls == 2
PageSize == 4

----------------------------------------------------------------------------
(* Strings *)

S_start == <<"_", "s", "t", "a", "r", "t">>
S_initialize == <<"_", "i", "n", "i", "t", "i", "a", "l", "i", "z", "e">>
S_add == <<"a", "d", "d">>
S_nope == <<"n", "o", "p", "e">>
S_exit == <<"e", "x", "i", "t", ":">>
S_abort == <<"a", "b", "o", "r", "t">>
S_unreachable == <<"u", "n", "r", "e", "a", "c", "h", "a", "b", "l", "e">>
S_load == <<"l", "o", "a", "d">>
S_undefined == <<"u", "n", "d", "e", "f", "i", "n", "e", "d">>
S_envNamespace == <<"e", "n", "v">>

Digits == <<"0", "1", "2", "3", "4", "5", "6", "7", "8", "9">>

DigitVal(c) == (CHOOSE k \in 1..10 : Digits[k] = c) - 1

IsDigit(c) == \E k \in 1..10 : Digits[k] = c

RECURSIVE Decimal(_)
\* `${code}` of a non-negative integer
Decimal(n) == IF n < 10 THEN <<Digits[n + 1]>> ELSE Decimal(n \div 10) \o <<Digits[(n % 10) + 1]>>

\* `${code}` of an integer
NumToString(n) == IF n < 0 THEN <<"-">> \o Decimal(-n) ELSE Decimal(n)

\* String.prototype.startsWith
StartsWith(s, pre) == Len(s) >= Len(pre) /\ SubSeq(s, 1, Len(pre)) = pre

\* String.prototype.includes
Includes(s, sub) ==
    \E k \in 0..(Len(s) - Len(sub)) : SubSeq(s, k + 1, k + Len(sub)) = sub

RECURSIVE TrimLeft(_)
TrimLeft(s) == IF s # <<>> /\ Head(s) = " " THEN TrimLeft(Tail(s)) ELSE s

RECURSIVE TrimRight(_)
TrimRight(s) == IF s # <<>> /\ s[Len(s)] = " " THEN TrimRight(SubSeq(s, 1, Len(s) - 1)) ELSE s

RECURSIVE DigitsValue(_)
DigitsValue(s) == IF s = <<>> THEN 0 ELSE 10 * DigitsValue(SubSeq(s, 1, Len(s) - 1)) + DigitVal(s[Len(s)])

AllDigits(s) == s # <<>> /\ \A k \in 1..Len(s) : IsDigit(s[k])

\* Values crossing the host/guest call boundary
Num(n) == [t |-> "num", v |-> n, s |-> <<>>]
NaN == [t |-> "nan", v |-> 0, s |-> <<>>]
Str(s) == [t |-> "str", v |-> 0, s |-> s]

\* Number(p) of a string: white space trimmed, the empty string is 0, a signed
\* decimal literal is its value, anything else is NaN
Number(p) ==
    LET t == TrimRight(TrimLeft(p)) IN
    IF t = <<>> THEN Num(0)
    ELSE IF AllDigits(t) THEN Num(DigitsValue(t))
    ELSE IF Head(t) = "-" /\ AllDigits(Tail(t)) THEN Num(0 - DigitsValue(Tail(t)))
    ELSE IF Head(t) = "+" /\ AllDigits(Tail(t)) THEN Num(DigitsValue(Tail(t)))
    ELSE NaN

isNaN(x) == x.t = "nan"

----------------------------------------------------------------------------
(* Modules and guest behaviour *)

ExportNames == {S_initialize, S_start, S_add}

\* instance.exports[name]: "func" is a callable export, "other" a memory, global
\* or table export, "absent" is undefined
Lookup(mod, name) == IF name \in DOMAIN mod.exp THEN mod.exp[name] ELSE "absent"

\* what a guest function does when it runs
B_ret == [op |-> "ret", code |-> 0]
B_void == [op |-> "void", code |-> 0]
B_write == [op |-> "write", code |-> 0]
B_abort == [op |-> "abort", code |-> 0]
B_trap == [op |-> "trap", code |-> 0]
B_exit(c) == [op |-> "exit", code |-> c]

\* the effect of one import call on the guest that made it
EffOk(via, wrote, ret) ==
    [k |-> "ok", code |-> ret, name |-> "", msg |-> <<>>, via |-> via, wrote |-> wrote, errlog |-> FALSE]
EffThrow(name, msg) ==
    [k |-> "throw", code |-> 0, name |-> name, msg |-> msg, via |-> -1, wrote |-> FALSE, errlog |-> FALSE]
EffExit(code) ==
    [k |-> "exit", code |-> code, name |-> "", msg |-> <<>>, via |-> -1, wrote |-> FALSE, errlog |-> FALSE]

\* utils.ts and the runner module: proc_exit
WasiProcExit(code) ==
    IF code = 0 THEN EffExit(0) ELSE EffThrow("RuntimeError", S_exit \o NumToString(code))

\* runner.ts: proc_exit
RunnerProcExit(code) == EffExit(code)

\* utils.ts and the runner module: fd_write resolves memory through the current
\* reference; reading .buffer of undefined throws a TypeError
WasiFdWrite(cur) ==
    IF cur = 0 THEN [EffThrow("TypeError", S_undefined) EXCEPT !.via = 0]
    ELSE EffOk(cur, TRUE, 0)

\* runner.ts: fd_write returns 1 when no instance is set
RunnerFdWrite(cur) == IF cur = 0 THEN EffOk(0, FALSE, 1) ELSE EffOk(cur, TRUE, 0)

\* utils.ts: env.abort
WasiAbort == EffThrow("RuntimeError", S_abort)

\* runner.ts: env.abort logs and returns to the guest
RunnerAbort == [EffOk(-1, FALSE, 0) EXCEPT !.errlog = TRUE]

ProcExitOf(host, code) == IF host = "runner.ts" THEN RunnerProcExit(code) ELSE WasiProcExit(code)

FdWriteOf(host, cur) == IF host = "runner.ts" THEN RunnerFdWrite(cur) ELSE WasiFdWrite(cur)

AbortOf(host) == IF host = "runner.ts" THEN RunnerAbort ELSE WasiAbort

\* ToInt32 of a value passed to an i32 parameter
ToInt32(x) == IF x.t = "num" THEN x.v ELSE 0

RECURSIVE SumArgs(_)
SumArgs(a) == IF a = <<>> THEN 0 ELSE ToInt32(Head(a)) + SumArgs(Tail(a))

\* One guest function running to its end under the imports of `host` with the
\* current-instance reference `cur`: [k, hasval, val, code, name, msg, via, wrote, errlog]
GuestRun(host, body, cur, args) ==
    LET e == CASE body.op = "write" -> FdWriteOf(host, cur)
               [] body.op = "exit" -> ProcExitOf(host, body.code)
               [] body.op = "abort" -> AbortOf(host)
               [] body.op = "trap" -> EffThrow("RuntimeError", S_unreachable)
               [] OTHER -> EffOk(-1, FALSE, 0)
    IN  [k |-> IF e.k = "ok" THEN "return" ELSE e.k,
         hasval |-> body.op = "ret",
         val |-> IF body.op = "ret" THEN SumArgs(args) ELSE 0,
         code |-> e.code, name |-> e.name, msg |-> e.msg,
         via |-> e.via, wrote |-> e.wrote, errlog |-> e.errlog]

----------------------------------------------------------------------------
(* Instantiation and invocation drivers *)

Truthy(kind) == kind # "absent"

Out(i, what, val) == [by |-> i, what |-> what, val |-> val]
Err(i, what, name, msg) == [by |-> i, what |-> what, name |-> name, msg |-> msg]
Call(i, name, args) == [by |-> i, name |-> name, args |-> args]
Sys(i, via, at) == [by |-> i, via |-> via, at |-> at]

\* what one synchronous stretch of a driver did: the exports it called, the
\* syscalls that touched memory, the lines written, how the stretch ended
\* (end: "return" | "reject" | "exit" | "go" to the next await)
Delta(cl, sy, out, err, end, code, name, msg) ==
    [calls |-> cl, sys |-> sy, out |-> out, err |-> err, end |-> end, code |-> code,
     name |-> name, msg |-> msg]

SysOf(i, o, at) == IF o.via = -1 THEN {} ELSE {Sys(i, o.via, at)}
GuestOut(i, o) == IF o.wrote THEN <<Out(i, "guest", 0)>> ELSE <<>>
GuestErr(i, o) == IF o.errlog THEN <<Err(i, "Abort at", "", <<>>)>> ELSE <<>>

\* parsedArgs of runWasi: params.map(p => { const n = Number(p); return isNaN(n) ? 0 : n; })
RunWasiParseArg(p) == LET n == Number(p) IN IF isNaN(n) THEN Num(0) ELSE n

\* parsedArgs of runFile: funcArgs.map(arg => isNaN(Number(arg)) ? arg : Number(arg))
RunFileParseArg(arg) == IF isNaN(Number(arg)) THEN Str(arg) ELSE Number(arg)

RunWasiParsedArgs(params) == [k \in 1..Len(params) |-> RunWasiParseArg(params[k])]

RunFileParsedArgs(params) == [k \in 1..Len(params) |-> RunFileParseArg(params[k])]

\* runWasi: wasiInstance.exports._initialize || wasiInstance.exports._start
RunWasiInitName(mod) == IF Truthy(Lookup(mod, S_initialize)) THEN S_initialize ELSE S_start

\* runWasi's catch: console.error(`Run error: ${err}`); Deno.exit(1)
RunWasiCatch(i, cl, sy, out, err, o) ==
    Delta(cl, sy, out, err \o <<Err(i, "Run error", o.name, o.msg)>>, "exit", 1, o.name, o.msg)

\* how a driver stretch ends once the guest call it made is over
AfterGuest(i, cl, o, out, err) ==
    IF o.k = "exit"
    THEN Delta(cl, SysOf(i, o, "call"), out, err, "exit", o.code, "", <<>>)
    ELSE Delta(cl, SysOf(i, o, "call"), out, err, "return", 0, "", <<>>)

\* runWasi from the assignment of wasiInstance to its end (the instance of
\* invocation i is named i)
RunWasiDispatch(i, mod, args) ==
    IF Len(args) > 0
    THEN LET name == Head(args)
             params == Tail(args)
         IN  IF Lookup(mod, name) = "func"
             THEN LET parsedArgs == RunWasiParsedArgs(params)
                      o == GuestRun("utils", mod.body, i, parsedArgs)
                      cl == <<Call(i, name, parsedArgs)>>
                  IN  IF o.k = "throw"
                      THEN RunWasiCatch(i, cl, SysOf(i, o, "call"), GuestOut(i, o), <<>>, o)
                      ELSE AfterGuest(i, cl, o,
                               GuestOut(i, o) \o
                                   (IF o.k = "return" /\ o.hasval THEN <<Out(i, "Result", o.val)>> ELSE <<>>),
                               <<>>)
             ELSE Delta(<<>>, {}, <<>>, <<Err(i, "not found", "", name)>>, "return", 0, "", <<>>)
    ELSE LET init == RunWasiInitName(mod) IN
         IF Lookup(mod, init) = "func"
         THEN LET o == GuestRun("utils", mod.body, i, <<>>)
                  cl == <<Call(i, init, <<>>)>>
              IN  IF o.k = "throw"
                  THEN IF o.name = "RuntimeError" /\ Includes(o.msg, S_exit \o <<"0">>)
                       THEN Delta(cl, SysOf(i, o, "call"), GuestOut(i, o), <<>>, "return", 0, "", <<>>)
                       ELSE RunWasiCatch(i, cl, SysOf(i, o, "call"), GuestOut(i, o), <<>>, o)
                  ELSE AfterGuest(i, cl, o, GuestOut(i, o), <<>>)
         ELSE Delta(<<>>, {}, <<>>, <<>>, "return", 0, "", <<>>)

\* handleWasmError: console.error(`Execution Error: ...`); Deno.exit(1)
HandleWasmError(i, cl, sy, out, err, o) ==
    Delta(cl, sy, out, err \o <<Err(i, "Execution Error", o.name, o.msg)>>, "exit", 1, o.name, o.msg)

\* runFile from the assignment of wasmInstance to its end
RunFileDispatch(i, mod, args) ==
    IF Len(args) > 0 /\ Lookup(mod, Head(args)) = "func"
    THEN LET funcName == Head(args)
             parsedArgs == RunFileParsedArgs(Tail(args))
             o == GuestRun("runner.ts", mod.body, i, parsedArgs)
             cl == <<Call(i, funcName, parsedArgs)>>
         IN  IF o.k = "throw"
             THEN HandleWasmError(i, cl, SysOf(i, o, "call"), GuestOut(i, o), GuestErr(i, o), o)
             ELSE AfterGuest(i, cl, o,
                      GuestOut(i, o) \o
                          (IF o.k = "return" /\ o.hasval THEN <<Out(i, "value", o.val)>> ELSE <<>>),
                      GuestErr(i, o))
    ELSE IF Lookup(mod, S_start) = "func"
         THEN LET o == GuestRun("runner.ts", mod.body, i, <<>>)
                  cl == <<Call(i, S_start, <<>>)>>
              IN  IF o.k = "throw"
                  THEN HandleWasmError(i, cl, SysOf(i, o, "call"), GuestOut(i, o), GuestErr(i, o), o)
                  ELSE AfterGuest(i, cl, o, GuestOut(i, o), GuestErr(i, o))
         ELSE Delta(<<>>, {}, <<Out(i, "note", 0), Out(i, "info", 0)>>, <<>>, "return", 0, "", <<>>)

\* executeWasm from the assignment of wasiInstance to its end
ExecuteWasmDispatch(i, mod) ==
    IF Lookup(mod, S_start) = "func"
    THEN LET o == GuestRun("runner", mod.body, i, <<>>)
             cl == <<Call(i, S_start, <<>>)>>
         IN  IF o.k = "throw"
             THEN IF o.name = "RuntimeError" /\ Includes(o.msg, S_exit \o <<"0">>)
                  THEN Delta(cl, SysOf(i, o, "call"), GuestOut(i, o), <<>>, "return", 0, "", <<>>)
                  ELSE Delta(cl, SysOf(i, o, "call"), GuestOut(i, o), <<>>, "reject", 0, o.name, o.msg)
             ELSE AfterGuest(i, cl, o, GuestOut(i, o), <<>>)
    ELSE Delta(<<>>, {}, <<>>, <<>>, "return", 0, "", <<>>)

\* the module's start section, run by WebAssembly.instantiate before it resolves:
\* the guest's fd_write sees the reference as it is at that moment
StartSection(i, host, mod, cur) ==
    IF mod.start
    THEN LET o == GuestRun(host, B_write, cur, <<>>) IN
         IF o.k = "throw"
         THEN IF host = "utils"
              THEN RunWasiCatch(i, <<>>, SysOf(i, o, "start"), <<>>, <<>>, o)
              ELSE Delta(<<>>, SysOf(i, o, "start"), <<>>, <<>>, "reject", 0, o.name, o.msg)
         ELSE Delta(<<>>, SysOf(i, o, "start"), GuestOut(i, o), <<>>, "go", 0, "", <<>>)
    ELSE Delta(<<>>, {}, <<>>, <<>>, "go", 0, "", <<>>)

\* the state after one synchronous stretch d of invocation i
Apply(i, d, nextpc) ==
    /\ calls' = calls \o d.calls
    /\ sys' = sys \cup d.sys
    /\ stdout' = stdout \o d.out
    /\ stderr' = stderr \o d.err
    /\ exited' = IF d.end = "exit" THEN d.code ELSE exited
    /\ inv' = [inv EXCEPT ![i].pc = IF d.end = "go" THEN nextpc ELSE "done",
                          ![i].res = IF d.end = "go" THEN "pending" ELSE d.end,
                          ![i].ename = d.name,
                          ![i].emsg = d.msg]
    /\ UNCHANGED <<loaderVars, sysVars>>

Running(i) == exited = -1 /\ i \in DOMAIN inv

\* runWasi: const wasmBytes = await getWasmBytes(path), inside the try
RunWasiLoad(i) ==
    /\ Running(i) /\ inv[i].drv = "runWasi" /\ inv[i].pc = "load"
    /\ \E ok \in BOOLEAN :
         Apply(i, IF ok THEN Delta(<<>>, {}, <<>>, <<>>, "go", 0, "", <<>>)
                  ELSE RunWasiCatch(i, <<>>, {}, <<>>, <<>>, [name |-> "Error", msg |-> S_load]),
               "inst")
    /\ UNCHANGED <<wasiInstance, wasmInstance, runnerInstance>>

\* runWasi: const result = await WebAssembly.instantiate(wasmBytes, extendedImports)
RunWasiInstantiate(i) ==
    /\ Running(i) /\ inv[i].drv = "runWasi" /\ inv[i].pc = "inst"
    /\ Apply(i, StartSection(i, "utils", inv[i].mod, wasiInstance), "resume")
    /\ UNCHANGED <<wasiInstance, wasmInstance, runnerInstance>>

\* runWasi: wasiInstance = result.instance and everything after it (no await)
RunWasiResume(i) ==
    /\ Running(i) /\ inv[i].drv = "runWasi" /\ inv[i].pc = "resume"
    /\ wasiInstance' = i
    /\ Apply(i, RunWasiDispatch(i, inv[i].mod, inv[i].args), "done")
    /\ UNCHANGED <<wasmInstance, runnerInstance>>

\* runFile: const binary = await getBinary(filePath), outside the try
RunFileLoad(i) ==
    /\ Running(i) /\ inv[i].drv = "runFile" /\ inv[i].pc = "load"
    /\ \E ok \in BOOLEAN :
         Apply(i, IF ok THEN Delta(<<>>, {}, <<>>, <<>>, "go", 0, "", <<>>)
                  ELSE Delta(<<>>, {}, <<>>, <<>>, "reject", 0, "Error", S_load),
               "inst")
    /\ UNCHANGED <<wasiInstance, wasmInstance, runnerInstance>>

\* runFile: await WebAssembly.compile, await WebAssembly.instantiate
RunFileInstantiate(i) ==
    /\ Running(i) /\ inv[i].drv = "runFile" /\ inv[i].pc = "inst"
    /\ Apply(i, StartSection(i, "runner.ts", inv[i].mod, wasmInstance), "resume")
    /\ UNCHANGED <<wasiInstance, wasmInstance, runnerInstance>>

\* runFile: wasmInstance = instance and the three scenarios
RunFileResume(i) ==
    /\ Running(i) /\ inv[i].drv = "runFile" /\ inv[i].pc = "resume"
    /\ wasmInstance' = i
    /\ Apply(i, RunFileDispatch(i, inv[i].mod, inv[i].args), "done")
    /\ UNCHANGED <<wasiInstance, runnerInstance>>

\* executeWasm: const bytes = await Deno.readFile(path)
ExecuteWasmLoad(i) ==
    /\ Running(i) /\ inv[i].drv = "executeWasm" /\ inv[i].pc = "load"
    /\ \E ok \in BOOLEAN :
         Apply(i, IF ok THEN Delta(<<>>, {}, <<>>, <<>>, "go", 0, "", <<>>)
                  ELSE Delta(<<>>, {}, <<>>, <<>>, "reject", 0, "Error", S_load),
               "inst")
    /\ UNCHANGED <<wasiInstance, wasmInstance, runnerInstance>>

\* a module whose code calls the abort hook imports env.abort
ImportsAbort(mod) == mod.body.op = "abort"

\* executeWasm: const { instance } = await WebAssembly.instantiate(bytes, imports);
\* createWasiImports has no env namespace, so a module importing env.abort is
\* rejected with a LinkError
ExecuteWasmInstantiate(i) ==
    /\ Running(i) /\ inv[i].drv = "executeWasm" /\ inv[i].pc = "inst"
    /\ Apply(i, IF ImportsAbort(inv[i].mod)
                THEN Delta(<<>>, {}, <<>>, <<>>, "reject", 0, "LinkError", S_envNamespace)
                ELSE StartSection(i, "runner", inv[i].mod, runnerInstance),
             "resume")
    /\ UNCHANGED <<wasiInstance, wasmInstance, runnerInstance>>

\* executeWasm: wasiInstance = instance; start()
ExecuteWasmResume(i) ==
    /\ Running(i) /\ inv[i].drv = "executeWasm" /\ inv[i].pc = "resume"
    /\ runnerInstance' = i
    /\ Apply(i, ExecuteWasmDispatch(i, inv[i].mod), "done")
    /\ UNCHANGED <<wasiInstance, wasmInstance>>

\* checkIsLibrary: no export is named _start (false when the module cannot be loaded)
checkIsLibrary(mod) == Lookup(mod, S_start) = "absent"

\* main.ts, case "run" on a .wasm or .wat target
MainRunCommand(i) ==
    /\ Running(i) /\ inv[i].entry = "main.ts" /\ inv[i].pc = "cmd"
    /\ IF checkIsLibrary(inv[i].mod) /\ Len(inv[i].req) = 0
       THEN Apply(i, Delta(<<>>, {}, <<Out(i, "note", 0), Out(i, "info", 0)>>, <<>>, "return", 0, "", <<>>), "done")
       ELSE Apply(i, Delta(<<>>, {}, <<>>, <<>>, "go", 0, "", <<>>), "load")
    /\ UNCHANGED <<wasiInstance, wasmInstance, runnerInstance>>

\* compiler.ts main(), case "run"
CompilerRunCommand(i) ==
    /\ Running(i) /\ inv[i].entry = "compiler.ts" /\ inv[i].pc = "cmd"
    /\ IF checkIsLibrary(inv[i].mod)
       THEN Apply(i, Delta(<<>>, {}, <<Out(i, "note", 0), Out(i, "info", 0)>>, <<>>,
                           IF Len(inv[i].req) > 0 THEN "go" ELSE "return", 0, "", <<>>), "load")
       ELSE /\ inv' = [inv EXCEPT ![i].pc = "load", ![i].args = <<>>]
            /\ UNCHANGED <<calls, sys, stdout, stderr, exited, loaderVars, sysVars>>
    /\ UNCHANGED <<wasiInstance, wasmInstance, runnerInstance>>

----------------------------------------------------------------------------
(* Binary loader: getWasmBytes *)

S_dotwat == <<".", "w", "a", "t">>
S_compilationError ==
    <<"[", "C", "o", "m", "p", "i", "l", "a", "t", "i", "o", "n", " ", "E", "r", "r", "o", "r", "]", " ">>
S_wat2wasmFailed ==
    <<"w", "a", "t", "2", "w", "a", "s", "m", " ", "f", "a", "i", "l", "e", "d", ":", " ">>
S_notFound == <<"N", "o", "t", "F", "o", "u", "n", "d">>
S_denied == <<"D", "e", "n", "i", "e", "d">>

P_wat == <<"m", ".", "w", "a", "t">>
P_wasm == <<"m", ".", "w", "a", "s", "m">>

\* String.prototype.endsWith
EndsWith(s, suf) == Len(s) >= Len(suf) /\ SubSeq(s, Len(s) - Len(suf) + 1, Len(s)) = suf

\* what the assembler wrote on its standard error
Diags == {<<"d", "1">>, <<"d", "2">>}

\* a getWasmBytes call at its first await: cmd.output() for a .wat path,
\* Deno.readFile(path) otherwise
LoadCall(path) ==
    [path |-> path, pc |-> IF EndsWith(path, S_dotwat) THEN "asm" ELSE "readbin",
     res |-> "pending", bytes |-> "none", ename |-> "", emsg |-> <<>>, cause |-> "none"]

\* the catch of getWasmBytes: throw new Error(`[Compilation Error] ${err.message}`),
\* kept pending while the finally block runs
\* (cause: what was thrown inside the try)
Wrapped(call, msg, cause) ==
    [call EXCEPT !.pc = "rm", !.res = "throw", !.ename = "Error", !.emsg = S_compilationError \o msg,
                 !.cause = cause]

\* getWasmBytes: await cmd.output() is over; `how` is what the assembler did
AssembleOutcome(call, how, diag) ==
    CASE how = "ok" -> [call EXCEPT !.pc = "read"]
      [] how = "nonzero" -> Wrapped(call, S_wat2wasmFailed \o diag, "nonzero")
      [] OTHER -> Wrapped(call, S_notFound, "spawn")

Assemble(c) ==
    /\ c \in DOMAIN ld /\ ld[c].pc = "asm"
    /\ \E how \in {"ok", "nonzero", "spawn"}, diag \in Diags :
          /\ ld' = [ld EXCEPT ![c] = AssembleOutcome(ld[c], how, diag)]
          /\ tempWasm' = IF how = "ok" THEN "assembled" ELSE tempWasm
    /\ UNCHANGED <<driverVars, sysVars>>

\* getWasmBytes: return await Deno.readFile(tempWasm)
ReadTempOutcome(call, file, ok) ==
    IF file = "none" THEN Wrapped(call, S_notFound, "missing")
    ELSE IF ok THEN [call EXCEPT !.pc = "rm", !.res = "bytes", !.bytes = file]
    ELSE Wrapped(call, S_denied, "denied")

ReadTemp(c) ==
    /\ c \in DOMAIN ld /\ ld[c].pc = "read"
    /\ \E ok \in BOOLEAN : ld' = [ld EXCEPT ![c] = ReadTempOutcome(ld[c], tempWasm, ok)]
    /\ UNCHANGED <<tempWasm, driverVars, sysVars>>

\* what goes wrong when the finally block runs only after a successful read
RemoveTempOnSuccessOnly(c) ==
    /\ c \in DOMAIN ld /\ ld[c].pc = "rm"
    /\ tempWasm' = IF ld[c].res = "bytes" THEN "none" ELSE tempWasm
    /\ ld' = [ld EXCEPT ![c].pc = "done"]
    /\ UNCHANGED <<driverVars, sysVars>>

\* getWasmBytes: finally { try { await Deno.remove(tempWasm); } catch { } }, then
\* the pending return or throw
RemoveTemp(c) ==
    /\ c \in DOMAIN ld /\ ld[c].pc = "rm"
    /\ tempWasm' = "none"
    /\ ld' = [ld EXCEPT ![c].pc = "done"]
    /\ UNCHANGED <<driverVars, sysVars>>

\* getWasmBytes: return await Deno.readFile(path)
ReadBinaryOutcome(call, ok) ==
    IF ok THEN [call EXCEPT !.pc = "done", !.res = "bytes", !.bytes = "binary"]
    ELSE [call EXCEPT !.pc = "done", !.res = "throw", !.ename = "NotFound", !.emsg = S_notFound,
                     !.cause = "unreadable"]

ReadBinary(c) ==
    /\ c \in DOMAIN ld /\ ld[c].pc = "readbin"
    /\ \E ok \in BOOLEAN : ld' = [ld EXCEPT ![c] = ReadBinaryOutcome(ld[c], ok)]
    /\ UNCHANGED <<tempWasm, driverVars, sysVars>>

----------------------------------------------------------------------------
(* Syscall emulation layer on linear memory *)

\* where the guest keeps what it passes to the syscalls: the iovec array, the
\* bytes to write, two 32-bit result slots, a pointer vector, a string buffer and
\* a 24-byte fdstat record
Lay == [iovs |-> 0,
        data |-> 8 * MaxIov,
        out  |-> 8 * MaxIov + MaxBytes,
        out2 |-> 8 * MaxIov + MaxBytes + 4,
        vec  |-> 8 * MaxIov + MaxBytes + 8,
        buf  |-> 8 * MaxIov + MaxBytes + 12,
        stat |-> 8 * MaxIov + MaxBytes + 16,
        size |-> 8 * MaxIov + MaxBytes + 40]

\* DataView.getUint32(a, true)
GetUint32(m, a) == m[a] + 256 * m[a + 1] + 65536 * m[a + 2] + 16777216 * m[a + 3]

\* byte k of v, least significant first
ByteOf(v, k) == (v \div (256 ^ k)) % 256

\* DataView.setUint32(a, v, true), for the values below 2^31 stored here
SetUint32(m, a, v) ==
    [x \in DOMAIN m |-> IF x \in a..(a + 3) THEN ByteOf(v, x - a) ELSE m[x]]

\* new Uint8Array(buffer, ptr, len)
Slice(m, ptr, len) == [k \in 1..len |-> m[ptr + k - 1]]

\* Uint8Array.set(bytes, ptr)
WriteBytes(m, ptr, bytes) ==
    [x \in DOMAIN m |-> IF x \in ptr..(ptr + Len(bytes) - 1) THEN bytes[x - ptr + 1] ELSE m[x]]

\* what a callback did: the memory it leaves, what it wrote to the host's
\* streams, its return value, whether it built a view, the host reads it issued
\* and what is left of standard input
SysResult(m, out, err, ret, touch) ==
    [mem |-> m, out |-> out, err |-> err, ret |-> ret, touch |-> touch, reads |-> <<>>, rest |-> stdin]

RECURSIVE FdWriteLoop(_, _, _, _)
\* the loop of fd_write from iovec i on: the bytes written and their count
FdWriteLoop(m, iovs, iovsLen, i) ==
    IF i >= iovsLen THEN [bytes |-> <<>>, n |-> 0]
    ELSE LET ptr == GetUint32(m, iovs + i * 8)
             len == GetUint32(m, iovs + i * 8 + 4)
             rest == FdWriteLoop(m, iovs, iovsLen, i + 1)
         IN  [bytes |-> Slice(m, ptr, len) \o rest.bytes, n |-> len + rest.n]

\* utils.ts and the runner module: fd_write
fd_write(m, fd, iovs, iovsLen, nwrittenPtr) ==
    LET r == FdWriteLoop(m, iovs, iovsLen, 0) IN
    SysResult(SetUint32(m, nwrittenPtr, r.n),
              IF fd = 1 THEN r.bytes ELSE <<>>,
              IF fd = 1 THEN <<>> ELSE r.bytes, 0, TRUE)

RECURSIVE Utf8RoundTrip(_)
\* encoder.encode(decoder.decode(bytes)): a byte that is no ASCII byte and no
\* part of a well-formed two-byte sequence comes back as U+FFFD (EF BF BD)
Utf8RoundTrip(b) ==
    IF b = <<>> THEN <<>>
    ELSE IF b[1] < 128 THEN <<b[1]>> \o Utf8RoundTrip(Tail(b))
    ELSE IF b[1] \in 194..223 /\ Len(b) >= 2 /\ b[2] \in 128..191
         THEN <<b[1], b[2]>> \o Utf8RoundTrip(Tail(Tail(b)))
    ELSE <<239, 191, 189>> \o Utf8RoundTrip(Tail(b))

RECURSIVE RunnerFdWriteLoop(_, _, _, _)
RunnerFdWriteLoop(m, iovs, iovsLen, i) ==
    IF i >= iovsLen THEN [bytes |-> <<>>, n |-> 0]
    ELSE LET ptr == GetUint32(m, iovs + i * 8)
             len == GetUint32(m, iovs + i * 8 + 4)
             rest == RunnerFdWriteLoop(m, iovs, iovsLen, i + 1)
         IN  [bytes |-> Utf8RoundTrip(Slice(m, ptr, len)) \o rest.bytes, n |-> len + rest.n]

\* runner.ts: fd_write ignores _fd and writes decoded text to standard output
runner_fd_write(m, fd, iovs, iovsLen, nwrittenPtr) ==
    LET r == RunnerFdWriteLoop(m, iovs, iovsLen, 0) IN
    SysResult(SetUint32(m, nwrittenPtr, r.n), r.bytes, <<>>, 0, TRUE)

\* utils.ts and the runner module: environ_sizes_get
environ_sizes_get(m, countPtr, bufSizePtr) ==
    SysResult(SetUint32(SetUint32(m, countPtr, 0), bufSizePtr, 0), <<>>, <<>>, 0, TRUE)

\* utils.ts and the runner module: args_sizes_get
args_sizes_get(m, countPtr, bufSizePtr) ==
    SysResult(SetUint32(SetUint32(m, countPtr, 0), bufSizePtr, 0), <<>>, <<>>, 0, TRUE)

\* utils.ts and the runner module: environ_get: () => 0
environ_get(m) == SysResult(m, <<>>, <<>>, 0, FALSE)

\* utils.ts and the runner module: args_get: () => 0
args_get(m) == SysResult(m, <<>>, <<>>, 0, FALSE)

\* TextEncoder.encode on the characters host strings are made of here
CharCode(c) ==
    CASE c = "a" -> 97 [] c = "b" -> 98 [] c = "K" -> 75 [] c = "v" -> 118
      [] c = "=" -> 61 [] OTHER -> 63

Encode(str) == [k \in 1..Len(str) |-> CharCode(str[k])]

RECURSIVE TotalLen(_, _)
\* strs.reduce((acc, a) => acc + encoder.encode(a).length + extra, 0)
TotalLen(strs, extra) ==
    IF strs = <<>> THEN 0 ELSE Len(Encode(Head(strs))) + extra + TotalLen(Tail(strs), extra)

RECURSIVE WriteVector(_, _, _, _, _)
\* strs.forEach((a, i) => { view.setUint32(vecPtr + i * 4, cur, true);
\*                          writeBytes(cur, encode(a + "\0")); cur += length })
WriteVector(m, strs, i, vecPtr, cur) ==
    IF i >= Len(strs) THEN m
    ELSE LET bytes == Encode(strs[i + 1]) \o <<0>> IN
         WriteVector(WriteBytes(SetUint32(m, vecPtr + i * 4, cur), cur, bytes),
                     strs, i + 1, vecPtr, cur + Len(bytes))

\* runner.ts: args_sizes_get
runner_args_sizes_get(m, args, argcPtr, argvBufSizePtr) ==
    SysResult(SetUint32(SetUint32(m, argcPtr, Len(args)), argvBufSizePtr, TotalLen(args, 1)),
              <<>>, <<>>, 0, TRUE)

\* runner.ts: args_get
runner_args_get(m, args, argvPtr, argvBufPtr) ==
    SysResult(WriteVector(m, args, 0, argvPtr, argvBufPtr), <<>>, <<>>, 0, TRUE)

\* runner.ts: Object.entries(env).map(([k, v]) => `${k}=${v}`), the "\0" left to the writer
EnvPairs(env) == [k \in 1..Len(env) |-> env[k].k \o <<"=">> \o env[k].v]

\* runner.ts: environ_sizes_get
runner_environ_sizes_get(m, env, countPtr, bufSizePtr) ==
    SysResult(SetUint32(SetUint32(m, countPtr, Len(env)), bufSizePtr, TotalLen(EnvPairs(env), 1)),
              <<>>, <<>>, 0, TRUE)

\* runner.ts: environ_get
runner_environ_get(m, env, envPtr, envBufPtr) ==
    SysResult(WriteVector(m, EnvPairs(env), 0, envPtr, envBufPtr), <<>>, <<>>, 0, TRUE)

\* the buffer a syscall builds its view on, had the view been kept from the
\* first call that made one
cachedBuffer == IF last.op = "none" THEN gen ELSE last.viewGen

\* memory.buffer, evaluated inside the syscall that uses it
memoryBuffer == gen

\* one syscall made by the guest: r is what the callback computes on the bytes
\* of the buffer it acquired; a view on a replaced (detached) buffer throws
Syscall(op, r) ==
    LET buf == memoryBuffer
        threw == r.touch /\ buf # gen
    IN  /\ nsys < MaxSyscalls
        /\ last' = [op |-> op, ret |-> r.ret, out |-> r.out, err |-> r.err, pre |-> mem,
                    touch |-> r.touch, threw |-> threw, viewGen |-> buf, gen |-> gen,
                    prev |-> IF last.op = "none" THEN -1 ELSE last.gen,
                    reads |-> r.reads, stdin |-> stdin, rest |-> r.rest,
                    post |-> IF threw THEN mem ELSE r.mem]
        /\ mem' = IF threw THEN mem ELSE r.mem
        /\ stdin' = r.rest
        /\ nsys' = nsys + 1
        /\ UNCHANGED <<scn, gen, driverVars, loaderVars>>

RunFileArgs == <<scn.path>>

FdWrite ==
    Syscall("fd_write",
            IF scn.host = "runner.ts"
            THEN runner_fd_write(mem, scn.fd, Lay.iovs, Len(scn.segs), Lay.out)
            ELSE fd_write(mem, scn.fd, Lay.iovs, Len(scn.segs), Lay.out))

ArgsSizesGet ==
    Syscall("args_sizes_get",
            IF scn.host = "runner.ts"
            THEN runner_args_sizes_get(mem, RunFileArgs, Lay.out, Lay.out2)
            ELSE args_sizes_get(mem, Lay.out, Lay.out2))

ArgsGet ==
    Syscall("args_get",
            IF scn.host = "runner.ts"
            THEN runner_args_get(mem, RunFileArgs, Lay.vec, Lay.buf)
            ELSE args_get(mem))

EnvironSizesGet ==
    Syscall("environ_sizes_get",
            IF scn.host = "runner.ts"
            THEN runner_environ_sizes_get(mem, scn.env, Lay.out, Lay.out2)
            ELSE environ_sizes_get(mem, Lay.out, Lay.out2))

EnvironGet ==
    Syscall("environ_get",
            IF scn.host = "runner.ts"
            THEN runner_environ_get(mem, scn.env, Lay.vec, Lay.buf)
            ELSE environ_get(mem))

\* byte k (from 0) of the host's standard input
StdinByte(k) == 65 + k

Min(a, b) == IF a < b THEN a ELSE b

\* Deno.stdin.readSync(buf) on a buffer of len bytes: the bytes of the chunk at
\* hand that fit, 0 for an empty buffer, and null (here n = 0) at end of input
ReadSync(st, len) ==
    IF len = 0 \/ st.chunks = <<>> THEN [n |-> 0, st |-> st]
    ELSE LET n == Min(len, Head(st.chunks)) IN
         [n |-> n,
          st |-> [pos |-> st.pos + n,
                  chunks |-> IF n = Head(st.chunks) THEN Tail(st.chunks)
                             ELSE <<Head(st.chunks) - n>> \o Tail(st.chunks)]]

\* what goes wrong when the loop of fd_read goes on after an empty read
NeverStopReading(n) == FALSE

\* fd_read: if (n === null || n === 0) break
StopReading(n) == n = 0

\* buf.subarray(0, n) of the buffer readSync filled from position pos on
ReadBytes(pos, n) == [k \in 1..n |-> StdinByte(pos + k - 1)]

RECURSIVE FdReadLoop(_, _, _, _, _)
\* the loop of fd_read from iovec i on: memory, the host reads issued (asked,
\* got), standard input and the total read after it
FdReadLoop(m, iovs, iovsLen, i, st) ==
    IF i >= iovsLen THEN [mem |-> m, reads |-> <<>>, st |-> st, total |-> 0]
    ELSE LET ptr == GetUint32(m, iovs + i * 8)
             len == GetUint32(m, iovs + i * 8 + 4)
             rd == ReadSync(st, len)
         IN  IF StopReading(rd.n)
             THEN [mem |-> m, reads |-> <<[asked |-> len, got |-> rd.n]>>, st |-> rd.st, total |-> 0]
             ELSE LET rest == FdReadLoop(WriteBytes(m, ptr, ReadBytes(st.pos, rd.n)),
                                         iovs, iovsLen, i + 1, rd.st)
                  IN  [mem |-> rest.mem,
                       reads |-> <<[asked |-> len, got |-> rd.n]>> \o rest.reads,
                       st |-> rest.st, total |-> rd.n + rest.total]

\* utils.ts and the runner module: fd_read
fd_read(m, fd, iovs, iovsLen, nreadPtr) ==
    IF fd # 0 THEN SysResult(m, <<>>, <<>>, 28, FALSE)
    ELSE LET r == FdReadLoop(m, iovs, iovsLen, 0, stdin) IN
         [SysResult(SetUint32(r.mem, nreadPtr, r.total), <<>>, <<>>, 0, TRUE)
             EXCEPT !.reads = r.reads, !.rest = r.st]

\* runner.ts: fd_read: () => 0
runner_fd_read(m) == SysResult(m, <<>>, <<>>, 0, FALSE)

\* view.setUint8(a, v)
SetUint8(m, a, v) == [x \in DOMAIN m |-> IF x = a THEN v % 256 ELSE m[x]]

\* view.setUint16(a, 0, true) and view.setBigUint64(a, 0n, true): n zero bytes
SetZero(m, a, n) == [x \in DOMAIN m |-> IF x \in a..(a + n - 1) THEN 0 ELSE m[x]]

\* utils.ts and the runner module: fd_fdstat_get
fd_fdstat_get(m, fd, ptr) ==
    SysResult(SetZero(SetZero(SetZero(SetUint8(m, ptr, IF fd <= 2 THEN 2 ELSE 3), ptr + 2, 2),
                              ptr + 8, 8), ptr + 16, 8),
              <<>>, <<>>, 0, TRUE)

\* runner.ts: fd_fdstat_get
runner_fd_fdstat_get(m, fd, statPtr) == SysResult(SetUint8(m, statPtr, 2), <<>>, <<>>, 0, TRUE)

\* utils.ts and the runner module: fd_prestat_get: () => 8
fd_prestat_get(m) == SysResult(m, <<>>, <<>>, 8, FALSE)

\* utils.ts and the runner module: fd_prestat_dir_name: () => 8
fd_prestat_dir_name(m) == SysResult(m, <<>>, <<>>, 8, FALSE)

\* utils.ts: poll_oneoff: () => 28
poll_oneoff(m) == SysResult(m, <<>>, <<>>, 28, FALSE)

\* runner.ts: fd_prestat_get: () => 76
runner_fd_prestat_get(m) == SysResult(m, <<>>, <<>>, 76, FALSE)

\* runner.ts: fd_prestat_dir_name: () => 76
runner_fd_prestat_dir_name(m) == SysResult(m, <<>>, <<>>, 76, FALSE)

\* runner.ts: poll_oneoff: () => 0
runner_poll_oneoff(m) == SysResult(m, <<>>, <<>>, 0, FALSE)

\* runner.ts: the path-based and socket calls its import table defines
PathAndSocketCalls ==
    {"path_open", "path_filestat_get", "path_remove_directory", "path_unlink_file",
     "sock_recv", "sock_send", "sock_shutdown"}

\* runner.ts: path_open, ..., sock_shutdown: () => 76
runner_path_or_sock(m) == SysResult(m, <<>>, <<>>, 76, FALSE)

FdRead ==
    Syscall("fd_read",
            IF scn.host = "runner.ts" THEN runner_fd_read(mem)
            ELSE fd_read(mem, scn.fd, Lay.iovs, Len(scn.segs), Lay.out))

FdFdstatGet ==
    Syscall("fd_fdstat_get",
            IF scn.host = "runner.ts" THEN runner_fd_fdstat_get(mem, scn.fd, Lay.stat)
            ELSE fd_fdstat_get(mem, scn.fd, Lay.stat))

FdPrestatGet ==
    Syscall("fd_prestat_get",
            IF scn.host = "runner.ts" THEN runner_fd_prestat_get(mem) ELSE fd_prestat_get(mem))

FdPrestatDirName ==
    Syscall("fd_prestat_dir_name",
            IF scn.host = "runner.ts" THEN runner_fd_prestat_dir_name(mem)
            ELSE fd_prestat_dir_name(mem))

PollOneoff ==
    Syscall("poll_oneoff",
            IF scn.host = "runner.ts" THEN runner_poll_oneoff(mem) ELSE poll_oneoff(mem))

\* a path-based or socket call: only the import table of runner.ts defines them
PathOrSocketCall ==
    /\ scn.host = "runner.ts"
    /\ \E name \in PathAndSocketCalls : Syscall(name, runner_path_or_sock(mem))

\* the guest's memory.grow between two syscalls: a new, longer buffer with the
\* old bytes, the new ones zero
MemoryGrow ==
    /\ gen < MaxGrow
    /\ gen' = gen + 1
    /\ mem' = [x \in 0..(Cardinality(DOMAIN mem) + PageSize - 1) |->
                  IF x \in DOMAIN mem THEN mem[x] ELSE 0]
    /\ UNCHANGED <<scn, last, nsys, stdin, driverVars, loaderVars>>

----------------------------------------------------------------------------
(* Inputs and specifications *)

SeqsUpTo(S, n) == UNION {[1..k -> S] : k \in 0..n}

ArgChars == {"2", "a", "-", " "}

ArgStrings == SeqsUpTo(ArgChars, MaxArgLen)

Kinds == {"absent", "func", "other"}

ModulesOf(starts, ki, ks, ka, bodies) ==
    {[start |-> st, exp |-> (S_initialize :> a) @@ (S_start :> b) @@ (S_add :> c), body |-> bd] :
        st \in starts, a \in ki, b \in ks, c \in ka, bd \in bodies}

Invocation(entry, drv, mod, req) ==
    [entry |-> entry, drv |-> drv, mod |-> mod, req |-> req, args |-> req,
     pc |-> IF entry = "api" THEN "load" ELSE "cmd",
     res |-> "pending", ename |-> "", emsg |-> <<>>]

Entries == {<<"api", "runWasi">>, <<"api", "runFile">>, <<"api", "executeWasm">>,
            <<"main.ts", "runWasi">>, <<"compiler.ts", "runWasi">>}

InitRest ==
    /\ wasiInstance = 0 /\ wasmInstance = 0 /\ runnerInstance = 0
    /\ calls = <<>> /\ sys = {} /\ stdout = <<>> /\ stderr = <<>>
    /\ exited = -1

InitLoaderIdle == ld = <<>> /\ tempWasm = "none"

InitDriverIdle == inv = <<>> /\ InitRest

\* bytes a guest writes: ASCII "A" and the two bytes of a two-byte UTF-8 sequence
ByteVals == {65, 195, 169}

Fds == {1, 2, 3}

RECURSIVE SumSeq(_)
SumSeq(q) == IF q = <<>> THEN 0 ELSE Head(q) + SumSeq(Tail(q))

\* every way to cut n bytes into at most MaxIov segments, empty ones included
Partitions(n) == {q \in SeqsUpTo(0..n, MaxIov) : SumSeq(q) = n}

HostPaths == {<<"a">>, <<"a", "b">>}

HostEnvs == {<<>>, <<[k |-> <<"K">>, v |-> <<"v">>]>>}

Scenario(h, fd, b, q, hp, e) ==
    [host |-> h, fd |-> fd, b |-> b, segs |-> q, path |-> hp, env |-> e]

Hosts == {"utils", "runner.ts"}

\* every fd_write input, under one host state
WriteScenarios ==
    UNION {{Scenario(h, fd, b, q, <<"a">>, <<>>) : h \in Hosts, fd \in Fds, q \in Partitions(Len(b))} :
           b \in SeqsUpTo(ByteVals, MaxBytes)}

\* every host state, under two fd_write inputs
HostScenarios ==
    {Scenario(h, fd, <<65>>, <<1>>, hp, e) : h \in Hosts, fd \in {1, 2}, hp \in HostPaths, e \in HostEnvs}

RECURSIVE LayIovs(_, _, _, _)
\* iovec j of the guest points at the j-th segment of the bytes at Lay.data
LayIovs(m, segs, j, off) ==
    IF j > Len(segs) THEN m
    ELSE LayIovs(SetUint32(SetUint32(m, Lay.iovs + (j - 1) * 8, Lay.data + off),
                           Lay.iovs + (j - 1) * 8 + 4, segs[j]),
                 segs, j + 1, off + segs[j])

\* the guest's memory before the syscalls: 170 (0xAA) where nothing was stored
GuestMemory(sc) ==
    LayIovs(WriteBytes([x \in 0..(Lay.size - 1) |-> 170], Lay.data, sc.b), sc.segs, 1, 0)

NoCall == [op |-> "none", ret |-> 0, out |-> <<>>, err |-> <<>>, pre |-> <<>>,
           touch |-> FALSE, threw |-> FALSE, viewGen |-> 0, gen |-> 0, prev |-> -1,
           reads |-> <<>>, stdin |-> [pos |-> 0, chunks |-> <<>>],
           rest |-> [pos |-> 0, chunks |-> <<>>], post |-> <<>>]

\* standard input at end of input
NoInput == [pos |-> 0, chunks |-> <<>>]

InitSysIdle ==
    /\ scn = [host |-> "utils", fd |-> 1, b |-> <<>>, segs |-> <<>>, path |-> <<>>, env |-> <<>>]
    /\ mem = <<>> /\ gen = 0 /\ last = NoCall /\ nsys = 0 /\ stdin = NoInput

\* an instantiated guest about to make syscalls
InitSys ==
    /\ scn \in HostScenarios
    /\ mem = GuestMemory(scn)
    /\ gen = 0 /\ last = NoCall /\ nsys = 0 /\ stdin = NoInput
    /\ InitDriverIdle /\ InitLoaderIdle

\* an instantiated guest about to write
InitWrite ==
    /\ scn \in WriteScenarios
    /\ mem = GuestMemory(scn)
    /\ gen = 0 /\ last = NoCall /\ nsys = 0 /\ stdin = NoInput
    /\ InitDriverIdle /\ InitLoaderIdle

\* descriptors a guest passes: standard streams, others, a negative one
FdVals == {-1, 0, 1, 2, 3, 4}

\* standard input as it arrives: up to MaxIov chunks of 1..MaxBytes bytes
Inputs ==
    {[pos |-> 0, chunks |-> ch] : ch \in SeqsUpTo(1..MaxBytes, MaxIov)}

\* iovec arrays for fd_read: buffers cut out of the data area, empty ones included
ReadSegs == {q \in SeqsUpTo(0..MaxBytes, MaxIov) : SumSeq(q) <= MaxBytes}

\* an instantiated guest about to make descriptor calls, one byte of input waiting
InitFd ==
    /\ scn \in {Scenario(h, fd, <<>>, <<1>>, <<"a">>, <<>>) : h \in Hosts, fd \in FdVals}
    /\ mem = GuestMemory(scn)
    /\ gen = 0 /\ last = NoCall /\ nsys = 0
    /\ stdin = [pos |-> 0, chunks |-> <<1>>]
    /\ InitDriverIdle /\ InitLoaderIdle

\* an instantiated guest about to read standard input
InitRead ==
    /\ scn \in {Scenario("utils", 0, <<>>, q, <<"a">>, <<>>) : q \in ReadSegs}
    /\ mem = GuestMemory(scn)
    /\ gen = 0 /\ last = NoCall /\ nsys = 0
    /\ stdin \in Inputs
    /\ InitDriverIdle /\ InitLoaderIdle

NextFd ==
    \/ FdRead \/ FdFdstatGet \/ FdPrestatGet \/ FdPrestatDirName \/ PollOneoff
    \/ PathOrSocketCall \/ MemoryGrow

NextRead == FdRead \/ MemoryGrow

SpecFd == InitFd /\ [][NextFd]_vars

SpecRead == InitRead /\ [][NextRead]_vars

NextSys == FdWrite \/ ArgsSizesGet \/ ArgsGet \/ EnvironSizesGet \/ EnvironGet \/ MemoryGrow

NextWrite == FdWrite \/ MemoryGrow

SpecWrite == InitWrite /\ [][NextWrite]_vars

SpecSys == InitSys /\ [][NextSys]_vars

\* two invocations issued back to back in one host process, neither awaited
InitRun ==
    /\ inv \in [{1, 2} ->
          {Invocation("api", drv, mod, req) :
              drv \in {"runWasi", "runFile", "executeWasm"},
              mod \in ModulesOf(BOOLEAN, {"absent"}, {"func"}, {"func"}, {B_write, B_ret}),
              req \in {<<>>, <<S_add>>}}]
    /\ InitRest /\ InitLoaderIdle /\ InitSysIdle

\* one invocation, over every export table and guest behaviour
InitCall ==
    /\ inv \in [{1} ->
          {Invocation(e[1], e[2], mod, req) :
              e \in Entries,
              mod \in ModulesOf(BOOLEAN, Kinds, Kinds, Kinds,
                                {B_ret, B_void, B_write, B_abort, B_trap, B_exit(0), B_exit(1), B_exit(10)}),
              req \in {<<>>, <<S_add>>, <<S_nope>>, <<S_start>>}}]
    /\ InitRest /\ InitLoaderIdle /\ InitSysIdle

\* one named-export call, over every argument list
InitArgs ==
    /\ inv \in [{1} ->
          {Invocation("api", drv, mod, <<S_add>> \o params) :
              drv \in {"runWasi", "runFile"},
              mod \in ModulesOf({FALSE}, {"absent"}, {"absent"}, {"func"}, {B_ret}),
              params \in SeqsUpTo(ArgStrings, MaxParams)}]
    /\ InitRest /\ InitLoaderIdle /\ InitSysIdle

\* the invocations one host process may have in flight
Invocations == {1, 2}

NextRun ==
    \/ \E i \in Invocations : RunWasiLoad(i)
    \/ \E i \in Invocations : RunWasiInstantiate(i)
    \/ \E i \in Invocations : RunWasiResume(i)
    \/ \E i \in Invocations : RunFileLoad(i)
    \/ \E i \in Invocations : RunFileInstantiate(i)
    \/ \E i \in Invocations : RunFileResume(i)
    \/ \E i \in Invocations : ExecuteWasmLoad(i)
    \/ \E i \in Invocations : ExecuteWasmInstantiate(i)
    \/ \E i \in Invocations : ExecuteWasmResume(i)

NextCall ==
    \/ NextRun
    \/ \E i \in Invocations : MainRunCommand(i)
    \/ \E i \in Invocations : CompilerRunCommand(i)

NextArgs ==
    \/ \E i \in Invocations : RunWasiLoad(i)
    \/ \E i \in Invocations : RunWasiInstantiate(i)
    \/ \E i \in Invocations : RunWasiResume(i)
    \/ \E i \in Invocations : RunFileLoad(i)
    \/ \E i \in Invocations : RunFileInstantiate(i)
    \/ \E i \in Invocations : RunFileResume(i)

\* the getWasmBytes calls one host process may have in flight
Loads == {1, 2}

\* two getWasmBytes calls issued back to back; a file may be lying at the
\* temporary path already
InitLoad ==
    /\ ld \in [Loads -> {LoadCall(path) : path \in {P_wat, P_wasm}}]
    /\ tempWasm \in {"none", "stale"}
    /\ InitDriverIdle /\ InitSysIdle

NextLoad ==
    \/ \E c \in Loads : Assemble(c)
    \/ \E c \in Loads : ReadTemp(c)
    \/ \E c \in Loads : RemoveTemp(c)
    \/ \E c \in Loads : ReadBinary(c)

SpecLoad == InitLoad /\ [][NextLoad]_vars

SpecRun == InitRun /\ [][NextRun]_vars

SpecCall == InitCall /\ [][NextCall]_vars

SpecArgs == InitArgs /\ [][NextArgs]_vars

----------------------------------------------------------------------------
(* Module introspection: showInfo *)

S_dunder == <<"_", "_">>
S_cabi == <<"c", "a", "b", "i", "_">>
S_configSchema ==
    <<"c", "o", "n", "f", "i", "g", "-", "s", "c", "h", "e", "m", "a">>
S_wasiNamespace ==
    <<"w", "a", "s", "i", "_", "s", "n", "a", "p", "s", "h", "o", "t", "_", "p", "r", "e", "v", "i", "e", "w", "1">>

\* binaryen's export kinds: 0 is ExternalFunction, 2 is ExternalMemory
ExternalFunction == 0
ExternalMemory == 2

\* what goes wrong when the canonical-ABI prefix is not on the list
isInternalButCabi(name) ==
    \/ name = S_start \/ name = S_initialize \/ name = S_abort
    \/ StartsWith(name, S_dunder)
    \/ Includes(name, S_configSchema)

\* showInfo: isInternal
isInternal(name) ==
    \/ name = S_start \/ name = S_initialize \/ name = S_abort
    \/ StartsWith(name, S_dunder) \/ StartsWith(name, S_cabi)
    \/ Includes(name, S_configSchema)

\* binaryen.expandType(info.params / info.results).map(getTypeName) of the
\* function an export names: add is (i32, i32) -> i32, the others () -> ()
ParamsOf(name) == IF name = S_add THEN <<"i32", "i32">> ELSE <<>>
ResultsOf(name) == IF name = S_add THEN <<"i32">> ELSE <<>>

\* results ... .join(", ") || "void"
OrVoid(types) == IF types = <<>> THEN <<"void">> ELSE types

\* console.log(`  - ${name}(${params}) -> ${results}`)
FunctionLine(i, name) ==
    Out(i, "fn", [name |-> name, params |-> ParamsOf(name), results |-> OrVoid(ResultsOf(name))])

RECURSIVE Listing(_, _, _)
\* the loop of showInfo over the export table from index k on: the lines printed
Listing(i, exports, k) ==
    IF k > Len(exports) THEN <<>>
    ELSE IF exports[k].kind # ExternalFunction THEN Listing(i, exports, k + 1)
    ELSE IF ~isInternal(exports[k].name)
         THEN <<FunctionLine(i, exports[k].name)>> \o Listing(i, exports, k + 1)
         ELSE Listing(i, exports, k + 1)

\* what goes wrong when the explicit empty state is printed for a lone function too
NoneFoundBelowTwo(found) == found <= 1

\* showInfo: if (found === 0) console.log("  (None found)")
NoneFound(found) == found = 0

\* showInfo: the scan of the import table, made only when the binaryen module
\* object has a getNumImports function
isWasi(mod) ==
    /\ mod.enumerable
    /\ \E k \in 1..Len(mod.imports) : mod.imports[k] = S_wasiNamespace

\* showInfo from binaryen.readBinary to its end (no await)
ShowInfoReport(i, mod) ==
    IF ~mod.valid
    THEN Delta(<<>>, {}, <<>>, <<Err(i, "Info error", "Error", S_load)>>, "return", 0, "", <<>>)
    ELSE LET lines == Listing(i, mod.exports, 1) IN
         Delta(<<>>, {},
               <<Out(i, "Module Info", 0), Out(i, "rule", 0), Out(i, "User Callable Functions", 0)>>
                   \o lines
                   \o (IF NoneFound(Len(lines)) THEN <<Out(i, "None found", 0)>> ELSE <<>>)
                   \o <<Out(i, "WASI Support", IF isWasi(mod) THEN "Yes" ELSE "No"), Out(i, "rule", 0)>>,
               <<>>, "return", 0, "", <<>>)

\* showInfo: const bytes = await getWasmBytes(path), inside the try
ShowInfoLoad(i) ==
    /\ Running(i) /\ inv[i].drv = "showInfo" /\ inv[i].pc = "load"
    /\ \E ok \in BOOLEAN :
         Apply(i, IF ok THEN Delta(<<>>, {}, <<>>, <<>>, "go", 0, "", <<>>)
                  ELSE Delta(<<>>, {}, <<>>, <<Err(i, "Info error", "Error", S_load)>>,
                             "return", 0, "", <<>>),
               "print")
    /\ UNCHANGED <<wasiInstance, wasmInstance, runnerInstance>>

\* showInfo: binaryen.readBinary(bytes) and the report
ShowInfoPrint(i) ==
    /\ Running(i) /\ inv[i].drv = "showInfo" /\ inv[i].pc = "print"
    /\ Apply(i, ShowInfoReport(i, inv[i].mod), "done")
    /\ UNCHANGED <<wasiInstance, wasmInstance, runnerInstance>>

\* export tables of at most MaxExports entries
MaxExports == 2

\* import tables of at most MaxImports entries
MaxImports == 2

\* export names: the reserved ones, each kind of internal name, and plain ones
InfoNames ==
    {S_start, S_initialize, S_abort, S_add, S_dunder \o <<"h">>, S_cabi \o <<"r">>,
     <<"x">> \o S_configSchema, <<"_", "h">>}

InfoExports == {[name |-> n, kind |-> k] : n \in InfoNames, k \in {ExternalFunction, ExternalMemory}}

\* export tables: the names of a module's exports are distinct
ExportTables ==
    {t \in SeqsUpTo(InfoExports, MaxExports) :
        \A a, b \in 1..Len(t) : a # b => t[a].name # t[b].name}

ImportTables == SeqsUpTo({S_wasiNamespace, S_envNamespace}, MaxImports)

\* the binaries showInfo is given: modules binaryen can read, and one it cannot
InfoModules ==
    {[valid |-> TRUE, exports |-> t, imports |-> im, enumerable |-> en] :
        t \in ExportTables, im \in ImportTables, en \in BOOLEAN}
    \cup {[valid |-> FALSE, exports |-> <<>>, imports |-> <<>>, enumerable |-> TRUE]}

\* one showInfo call
InitInfo ==
    /\ inv \in [{1} -> {Invocation("api", "showInfo", mod, <<>>) : mod \in InfoModules}]
    /\ InitRest /\ InitLoaderIdle /\ InitSysIdle

NextInfo ==
    \/ \E i \in Invocations : ShowInfoLoad(i)
    \/ \E i \in Invocations : ShowInfoPrint(i)

SpecInfo == InitInfo /\ [][NextInfo]_vars

----------------------------------------------------------------------------
(* Claims about the drivers *)

CallsBy(i) == SelectSeq(calls, LAMBDA c : c.by = i)
OutBy(i) == SelectSeq(stdout, LAMBDA c : c.by = i)
ErrBy(i) == SelectSeq(stderr, LAMBDA c : c.by = i)

\* the reference the driver of invocation i assigns
ReferenceOf(i) ==
    CASE inv[i].drv = "runWasi" -> wasiInstance
      [] inv[i].drv = "runFile" -> wasmInstance
      [] OTHER -> runnerInstance

\* invocation i got past instantiation and ran its dispatch to the end
Dispatched(i) == inv[i].pc = "done" /\ ReferenceOf(i) = i

\* C1: every syscall that resolves memory runs after the driver has assigned the
\* current-instance reference to the instance of its own invocation: none runs
\* with the reference unset (0) or pointing at another invocation's instance,
\* syscalls of a start function during WebAssembly.instantiate included.
C1_ReferenceSetBeforeSyscall == \A s \in sys : s.via = s.by

\* C2: no syscall of one invocation's guest resolves memory through the instance
\* of the other, overlapping invocation.
C2_IsolatedReference == \A s \in sys : s.via \notin (Invocations \ {s.by})

\* the failure invocation i reported mentions exit code c
ReportsExitCode(i, c) ==
    \/ \E k \in 1..Len(stderr) : stderr[k].by = i /\ Includes(stderr[k].msg, NumToString(c))
    \/ inv[i].res = "reject" /\ Includes(inv[i].emsg, NumToString(c))

\* invocation i called the module's start routine as the default entry point
DefaultEntryExit(i) ==
    /\ inv[i].pc = "done" /\ inv[i].args = <<>>
    /\ inv[i].mod.body.op = "exit"
    /\ CallsBy(i) # <<>>

\* C4: proc_exit during the start routine of a default entry-point invocation:
\* code 0 ends the invocation with nothing reported as an error, any other code
\* ends it as a failure whose diagnostic mentions the code.
C4_ExitCodeReported ==
    \A i \in DOMAIN inv : DefaultEntryExit(i) =>
        IF inv[i].mod.body.code = 0
        THEN ErrBy(i) = <<>> /\ inv[i].res # "reject" /\ exited \in {-1, 0}
        ELSE ReportsExitCode(i, inv[i].mod.body.code) /\ (exited > 0 \/ inv[i].res = "reject")

\* the run of invocation i asked for a name that is no function export
RequestedMissing(i) ==
    /\ Dispatched(i)
    /\ Len(inv[i].req) > 0 /\ Lookup(inv[i].mod, Head(inv[i].req)) # "func"

\* C5: asking for a name that is no function export ends in a function-not-found
\* error, with no guest export invoked and nothing written to standard output by
\* the run command.
C5_FunctionNotFound ==
    \A i \in DOMAIN inv : RequestedMissing(i) =>
        /\ \E k \in 1..Len(stderr) : stderr[k].by = i /\ stderr[k].what = "not found"
        /\ CallsBy(i) = <<>>
        /\ OutBy(i) = <<>>

\* the default entry point was asked of the driver of invocation i
DefaultEntry(i) == Dispatched(i) /\ inv[i].args = <<>>

\* C9: with no function name, the driver calls _initialize when it is exported
\* as a function, else _start when that is a function, exactly once, and calls
\* nothing and reports nothing when neither is.
C9_InitializerThenStart ==
    \A i \in DOMAIN inv : DefaultEntry(i) =>
        LET ki == Lookup(inv[i].mod, S_initialize)
            ks == Lookup(inv[i].mod, S_start)
            names == [k \in 1..Len(CallsBy(i)) |-> CallsBy(i)[k].name]
        IN  /\ (ki = "func" => names = <<S_initialize>>)
            /\ (ki # "func" /\ ks = "func" => names = <<S_start>>)
            /\ (ki # "func" /\ ks # "func" => names = <<>> /\ ErrBy(i) = <<>>)

\* invocation i called a named export
NamedCall(i) ==
    /\ Dispatched(i)
    /\ Len(inv[i].args) > 0 /\ Lookup(inv[i].mod, Head(inv[i].args)) = "func"

\* C10: the named export is called once with as many arguments as strings were
\* given, in their order, each a number: the value of the string when it is
\* numeric and 0 when it is not.
C10_ArgumentsCoerced ==
    \A i \in DOMAIN inv : NamedCall(i) =>
        LET params == Tail(inv[i].args) IN
        /\ Len(CallsBy(i)) = 1
        /\ Len(CallsBy(i)[1].args) = Len(params)
        /\ \A k \in 1..Len(params) :
              LET a == CallsBy(i)[1].args[k] IN
              /\ a.t = "num"
              /\ a.v = (IF isNaN(Number(params[k])) THEN 0 ELSE Number(params[k]).v)

\* the guest of invocation i called the abort hook
AbortCalled(i) ==
    /\ inv[i].pc = "done" /\ inv[i].drv \in {"runWasi", "runFile"}
    /\ inv[i].mod.body.op = "abort"
    /\ CallsBy(i) # <<>>

\* C18: when the guest calls the abort hook the call does not return to the
\* guest (the export does not run to its end) and the invocation ends as a
\* host-level failure whose diagnostic carries the "abort" marker.
C18_AbortIsFatal ==
    \A i \in DOMAIN inv : AbortCalled(i) =>
        /\ inv[i].res # "return"
        /\ exited > 0 \/ inv[i].res = "reject"
        /\ \/ \E k \in 1..Len(stderr) : stderr[k].by = i /\ Includes(stderr[k].msg, S_abort)
           \/ inv[i].res = "reject" /\ Includes(inv[i].emsg, S_abort)

\* runWasi wrote an error line for invocation i: the `Run error` of its catch
\* or the `Function ... not found` of its named-call branch
RunWasiReportedError(i) ==
    \E k \in 1..Len(stderr) :
        stderr[k].by = i /\ stderr[k].what \in {"Run error", "not found"}

\* runWasi was called for invocation i and is over
RunWasiOver(i) == inv[i].drv = "runWasi" /\ inv[i].pc = "done"

\* C21: whenever runWasi reports an error to the user (load or assembler
\* failure, instantiation failure, guest trap, non-zero guest exit, abort, or
\* function not found) the host process terminates with a non-zero exit
\* status; runWasi returns normally only when it reported nothing as an error.
C21_ReportedErrorsExitNonZero ==
    \A i \in DOMAIN inv : RunWasiOver(i) =>
        /\ RunWasiReportedError(i) => inv[i].res = "exit" /\ exited > 0
        /\ inv[i].res = "return" => ~RunWasiReportedError(i)

----------------------------------------------------------------------------
(* Claims about the binary loader *)

IsWatCall(c) == EndsWith(ld[c].path, S_dotwat)

IsCompilationError(c) == ld[c].res = "throw" /\ StartsWith(ld[c].emsg, S_compilationError)

\* C11: a finished getWasmBytes call fails with a compilation error, carrying the
\* assembler's diagnostic text, exactly when the assembler exited non-zero; a
\* call that failed because a file could not be read (the binary at the path, or
\* the temporary artifact) fails with an error that is not a compilation error.
C11_LoaderErrorKinds ==
    \A c \in DOMAIN ld :
        (ld[c].pc = "done" /\ ld[c].res = "throw") =>
            /\ IsCompilationError(c) <=> ld[c].cause = "nonzero"
            /\ ld[c].cause = "nonzero" =>
                   \E d \in Diags : ld[c].emsg = S_compilationError \o S_wat2wasmFailed \o d
            /\ ld[c].cause \in {"denied", "missing", "unreadable"} => ~IsCompilationError(c)

\* C20: two getWasmBytes calls that overlap on one .wat path do not interfere:
\* when both have ended and neither met a failure of its own (assembler exit
\* code, assembler not spawned, unreadable artifact), both returned the assembled
\* bytes, so neither cleanup removed the artifact before the other call read it.
C20_OverlappingLoadsDoNotInterfere ==
    (\A c \in DOMAIN ld :
        IsWatCall(c) /\ ld[c].pc = "done" /\ ld[c].cause \notin {"nonzero", "spawn", "denied"})
    => \A c \in DOMAIN ld : ld[c].res = "bytes" /\ ld[c].bytes = "assembled"

----------------------------------------------------------------------------
(* Claims about the syscalls *)

\* C6: one fd_write call over any cut of the bytes b into iovec segments stores
\* Len(b) at out_written_ptr, returns 0 and emits exactly b, in order, on
\* standard output when fd = 1 and on standard error for any other fd.
C6_FdWriteEmitsAllBytes ==
    last.op = "fd_write" =>
        /\ last.ret = 0 /\ ~last.threw
        /\ GetUint32(last.post, Lay.out) = Len(scn.b)
        /\ last.out = (IF scn.fd = 1 THEN scn.b ELSE <<>>)
        /\ last.err = (IF scn.fd = 1 THEN <<>> ELSE scn.b)

\* C7: whatever the host's arguments and environment are, the size queries store
\* count 0 and buffer size 0 and change nothing else, and args_get and
\* environ_get leave guest memory as it was.
C7_NoHostDataInGuestMemory ==
    /\ last.op \in {"args_sizes_get", "environ_sizes_get"} =>
          last.ret = 0 /\ last.post = SetUint32(SetUint32(last.pre, Lay.out, 0), Lay.out2, 0)
    /\ last.op \in {"args_get", "environ_get"} => last.ret = 0 /\ last.post = last.pre

C12_FdReadBadDescriptor ==
    (last.op = "fd_read" /\ scn.fd # 0) =>
        /\ last.ret = 8
        /\ last.reads = <<>> /\ last.rest = last.stdin
        /\ last.post = last.pre

\* C13: fd_prestat_get, fd_prestat_dir_name, poll_oneoff and every path-based
\* and socket call of the import table return 28 (not supported) and leave guest
\* memory as it was.
C13_UnsupportedCallsReturn28 ==
    last.op \in ({"fd_prestat_get", "fd_prestat_dir_name", "poll_oneoff"} \cup PathAndSocketCalls) =>
        last.ret = 28 /\ last.post = last.pre

\* C14: fd_fdstat_get returns 0 and stores file type 2 (character device) for
\* descriptors 0, 1 and 2 and file type 4 (regular file) for any other
\* descriptor, negative ones included, with zero flags at offset 2 and zero
\* rights at offsets 8 and 16.
C14_FdstatFileType ==
    last.op = "fd_fdstat_get" =>
        /\ last.ret = 0
        /\ last.post[Lay.stat] = (IF scn.fd \in {0, 1, 2} THEN 2 ELSE 4)
        /\ \A x \in {2, 3} \cup (8..23) : last.post[Lay.stat + x] = 0

\* where iovec j of the scenario's array points
BufferOf(j) == Lay.data + SumSeq(SubSeq(scn.segs, 1, j - 1))

\* how many bytes the host reads before read j returned
GotBefore(reads, j) == SumSeq([k \in 1..(j - 1) |-> reads[k].got])

\* C19: fd_read on descriptor 0 issues one host read per iovec, in order, for at
\* most the iovec's length, and stops at the first read that returns nothing;
\* each buffer receives exactly the bytes its read returned, nothing else in
\* memory changes but out_read_ptr, which holds the number of bytes copied, a
\* number that does not exceed the sum of the iovec lengths.
C19_FdReadFillsIovecs ==
    (last.op = "fd_read" /\ scn.fd = 0 /\ scn.host # "runner.ts") =>
        LET rd == last.reads
            total == GotBefore(rd, Len(rd) + 1)
        IN  /\ last.ret = 0
            /\ Len(rd) <= Len(scn.segs)
            /\ \A j \in 1..Len(rd) :
                  /\ rd[j].asked = scn.segs[j] /\ rd[j].got <= rd[j].asked
                  /\ (j < Len(rd) => rd[j].got > 0)
            /\ (Len(rd) < Len(scn.segs) => rd[Len(rd)].got = 0)
            /\ last.rest.pos = last.stdin.pos + total
            /\ GetUint32(last.post, Lay.out) = total /\ total <= SumSeq(scn.segs)
            /\ \A x \in DOMAIN last.post \ (Lay.out..(Lay.out + 3)) :
                  IF \E j \in 1..Len(rd) : x \in BufferOf(j)..(BufferOf(j) + rd[j].got - 1)
                  THEN \E j \in 1..Len(rd) :
                          /\ x \in BufferOf(j)..(BufferOf(j) + rd[j].got - 1)
                          /\ last.post[x] = StdinByte(last.stdin.pos + GotBefore(rd, j) + (x - BufferOf(j)))
                  ELSE last.post[x] = last.pre[x]

\* an fd_read that filled one buffer in part, stopped at an empty iovec and left
\* input and a later iovec untouched
C19_Witness ==
    /\ last.op = "fd_read" /\ scn.fd = 0
    /\ Len(last.reads) = 2 /\ Len(scn.segs) > 1
    /\ last.reads[1].got > 0 /\ last.reads[2].got = 0
    /\ last.post # last.pre

----------------------------------------------------------------------------
(* Claims about showInfo *)

\* showInfo call i read the module and printed its report
Reported(i) ==
    /\ inv[i].drv = "showInfo" /\ inv[i].pc = "done"
    /\ \E k \in 1..Len(stdout) : stdout[k].by = i /\ stdout[k].what = "User Callable Functions"

\* the names on the function lines of call i, in the order printed
ListedNames(i) ==
    LET fns == SelectSeq(stdout, LAMBDA o : o.by = i /\ o.what = "fn")
    IN  [k \in 1..Len(fns) |-> fns[k].val.name]

\* an export the listing is to show: a function whose name is not reserved and
\* carries none of the internal marks
Qualifies(e) ==
    /\ e.kind = 0
    /\ e.name \notin {S_start, S_initialize, S_abort}
    /\ ~(Len(e.name) >= 2 /\ e.name[1] = "_" /\ e.name[2] = "_")
    /\ ~(Len(e.name) >= 5 /\ SubSeq(e.name, 1, 5) = S_cabi)
    /\ ~\E k \in 1..Len(e.name) :
            k + Len(S_configSchema) - 1 <= Len(e.name)
            /\ SubSeq(e.name, k, k + Len(S_configSchema) - 1) = S_configSchema

\* the qualifying exports of a table, in table order
QualifyingNames(t) ==
    LET q == SelectSeq(t, Qualifies) IN [k \in 1..Len(q) |-> q[k].name]

\* C15: the listing shows exactly the exports that are functions and whose name
\* is none of _start, _initialize, abort, does not start with "__" or "cabi_" and
\* does not contain "config-schema": each once, in export-table order.
C15_ListingFilter ==
    \A i \in DOMAIN inv : Reported(i) => ListedNames(i) = QualifyingNames(inv[i].mod.exports)

\* a report over a table in which a plain function stands between an internal
\* one and a memory export was printed
C15_Witness ==
    \E i \in DOMAIN inv :
        /\ Reported(i)
        /\ ListedNames(i) = <<S_add>>
        /\ Len(inv[i].mod.exports) = 2
        /\ \E k \in 1..2 : inv[i].mod.exports[k].name = S_cabi \o <<"r">>
                              /\ inv[i].mod.exports[k].kind = 0

\* how often call i printed "(None found)"
NoneFoundLines(i) == Len(SelectSeq(stdout, LAMBDA o : o.by = i /\ o.what = "None found"))

\* C16: a finished showInfo call that read the module printed "(None found)"
\* exactly when no export qualifies for the listing, and a call whose
\* introspection failed printed an error and no "(None found)".
C16_NoneFoundState ==
    \A i \in DOMAIN inv : (inv[i].drv = "showInfo" /\ inv[i].pc = "done") =>
        IF Reported(i)
        THEN /\ ErrBy(i) = <<>>
             /\ NoneFoundLines(i) = (IF QualifyingNames(inv[i].mod.exports) = <<>> THEN 1 ELSE 0)
        ELSE /\ Len(ErrBy(i)) = 1 /\ ErrBy(i)[1].what = "Info error"
             /\ NoneFoundLines(i) = 0

\* a report with one listed function and no "(None found)" was printed
C16_Witness ==
    \E i \in DOMAIN inv :
        Reported(i) /\ Len(ListedNames(i)) = 1 /\ NoneFoundLines(i) = 0

\* the answer call i printed after "WASI Support:"
WasiAnswers(i) ==
    LET w == SelectSeq(stdout, LAMBDA o : o.by = i /\ o.what = "WASI Support")
    IN  [k \in 1..Len(w) |-> w[k].val]

\* C17: the report says "WASI Support: Yes" exactly when an entry of the import
\* table has module name wasi_snapshot_preview1, whatever the export table is; a
\* module that exports only add and imports nothing from that namespace gets
\* one listed function and "No".
C17_WasiSupport ==
    \A i \in DOMAIN inv : Reported(i) =>
        /\ WasiAnswers(i) =
              <<IF \E k \in 1..Len(inv[i].mod.imports) : inv[i].mod.imports[k] = S_wasiNamespace
                THEN "Yes" ELSE "No">>
        /\ (/\ inv[i].mod.exports = <<[name |-> S_add, kind |-> 0]>>
            /\ \A k \in 1..Len(inv[i].mod.imports) : inv[i].mod.imports[k] # S_wasiNamespace)
               => /\ WasiAnswers(i) = <<"No">>
                  /\ SelectSeq(stdout, LAMBDA o : o.by = i /\ o.what = "fn") =
                        <<Out(i, "fn", [name |-> S_add, params |-> <<"i32", "i32">>,
                                        results |-> <<"i32">>])>>

====
